---- MODULE Spec2Model ----
(***************************************************************************)
(* S2V (Scenario to Video): the serverless API handlers                    *)
(*   /api/generate-video, /api/generate-food-video (both revisions),       *)
(*   /api/admin/users, /api/generate-clip-scenario (with                   *)
(*   getOpenAIKeyForUser), and the browser hook useLongformExport.         *)
(* One request is followed from its arrival to its response; every await   *)
(* of a handler is a step whose outcome the environment chooses.           *)
(***************************************************************************)
EXTENDS Integers, Sequences, FiniteSets

VARIABLES
    \* ---- the request and its response (all handlers)
    pc,              \* position of the handler
    endpoint,        \* which handler serves the request
    method,          \* req.method
    authed,          \* requireAuth(req).authenticated && auth.userId
    status,          \* HTTP status sent, 0 while none
    body,            \* what the response carries
    responses,       \* number of responses sent
    \* ---- environment and database
    envHailuo,       \* process.env.HAILUO_API_KEY
    envOpenAI,       \* process.env.OPENAI_API_KEY
    user,            \* what findUserById returned (NoUser before the lookup)
    userKnown,       \* findUserById has returned
    lookups,         \* calls of findUserById
    \* ---- video handlers
    apiKey,          \* the key chosen for Hailuo
    uploads,         \* image upload requests sent
    uploadOk,        \* the upload returned a URL
    blobUrl,         \* generate-food-video (Vercel Blob): blob to clean up
    blobDeleted,     \* del(blobUrl) was called
    creates,         \* create-prediction requests sent
    predictionId,    \* a prediction ID was obtained
    sentKeys,        \* X-API-Key values of the Hailuo requests sent
    polls,           \* status polls sent
    pollCount,       \* the handler's pollCount
    elapsed,         \* Date.now() - startTime in ms, as of the handler's latest
                     \* time check or timer
    lastPollSentAt,  \* elapsed when the latest poll was sent, -1 if none
    lastPoll,        \* the latest poll: "none", "success" (status 'success' with an
                     \* output) or "other"
    consecFails,     \* failed polls in a row just now (saturates at FailCap)
    \* ---- /api/admin/users
    getAllUsersCalls,
    \* ---- /api/generate-clip-scenario
    userId,          \* getUserIdFromRequest(req) found a user id
    reqDuration,     \* config.duration (NoDuration when absent)
    textModel,       \* "openai" or "gemini"
    openaiKey,       \* what getOpenAIKeyForUser returned
    promptScenes,    \* the number of scenes the prompt asks for
    parsedScenes,    \* parsed.scenes: the scenes the text model returned
    scenario,        \* the scenario sent with 200
    \* ---- useLongformExport
    partStates,      \* React state: status of each part
    seenLen,         \* partStates.length as the current callback closure sees it
    renderingParts,  \* renderingPartsRef.current
    controllers,     \* every AbortController created: TRUE once aborted
    abortControllers,\* abortControllersRef.current: part -> controller, 0 for none
    renders,         \* every renderLongformPart call: its part, controller, in flight
    blobUrls,        \* blobUrlsRef.current: parts holding an object URL
    outputParts,     \* output.parts: parts holding a rendered video
    \* ---- POST /api/admin/setup
    users,           \* the documents of db.collection('users')
    setupPc,         \* position of each setup request
    setupStatus,     \* HTTP status each setup request sent, 0 while none
    existingUser,    \* each setup request's existingUser: what findOne returned
    \* ---- buildImagePrompt
    config,          \* the ImagePromptConfig passed in
    generated,       \* buildImagePrompt has returned
    breakdown,       \* the blocks it computed
    fullPrompt       \* the fullPrompt it returned

reqVars   == <<pc, endpoint, method, authed, status, body, responses>>
envVars   == <<envHailuo, envOpenAI>>
videoVars == <<apiKey, uploads, uploadOk, blobUrl, blobDeleted, creates, predictionId,
               sentKeys, polls, pollCount, elapsed, lastPollSentAt, lastPoll, consecFails>>
adminVars == <<getAllUsersCalls>>
clipVars  == <<userId, reqDuration, textModel, openaiKey, promptScenes, parsedScenes,
               scenario>>
hookVars  == <<partStates, seenLen, renderingParts, controllers, abortControllers,
               renders, blobUrls, outputParts>>
userVars  == <<user, userKnown, lookups>>
setupVars == <<users, setupPc, setupStatus, existingUser>>
promptVars == <<config, generated, breakdown, fullPrompt>>
utilVars  == <<setupVars, promptVars>>
vars == <<reqVars, envVars, userVars, videoVars, adminVars, clipVars, hookVars, utilVars>>

----------------------------------------------------------------------------
(* JavaScript values *)

Undefined == "<undefined>"

\* what `a || b` treats as absent: undefined and the empty string
Falsy(v) == v \in {Undefined, ""}

\* a || b
Or(a, b) == IF Falsy(a) THEN b ELSE a

EnvKeyValues  == {Undefined, "", "sk-env"}
UserKeyValues == {Undefined, "", "sk-user"}

\* user documents as the handlers read them: isAdmin, settings.hailuoApiKey,
\* settings.openaiApiKey; found is FALSE for the null findUserById returns
\* for an unknown id, whose fields read through ?. are all undefined
UserRecords == [found : {TRUE}, isAdmin : BOOLEAN,
                hailuoApiKey : UserKeyValues, openaiApiKey : UserKeyValues]

NoUser == [found |-> FALSE, isAdmin |-> FALSE,
           hailuoApiKey |-> Undefined, openaiApiKey |-> Undefined]

\* the users the video and admin handlers can be handed: their OpenAI key is
\* not read there and is left unset
HailuoUsers == {u \in UserRecords : u.openaiApiKey = Undefined} \cup {NoUser}

\* the users getOpenAIKeyForUser can be handed
OpenAIUsers == {u \in UserRecords : u.hailuoApiKey = Undefined} \cup {NoUser}

\* user?.isAdmin
IsAdmin(u) == u.found /\ u.isAdmin

----------------------------------------------------------------------------
(* Constants of the video handlers *)

maxPollingTime == 300000
pollInterval   == 5000

\* `pollCount > 3` in the catch of a failed poll
maxPollFailures == 3

\* a poll's fetch takes 0 .. MaxLatencySteps waits of pollInterval
MaxLatencySteps == 1
Latencies       == {k * pollInterval : k \in 0..MaxLatencySteps}

\* consecFails counts 0, 1, 2, "FailCap or more"
FailCap == 3

VideoEndpoints == {"generate-video", "generate-food-video-blob", "generate-food-video"}
Methods        == {"OPTIONS", "GET", "POST"}

\* what the text of a thrown error matches in the handlers' includes() tests
\*   unauthorized: '401' or 'Unauthorized'
\*   forbidden:    'PERMISSION_DENIED', '403' or 'Forbidden'
\*   quota:        'QUOTA_EXCEEDED', '429', 'Resource exhausted' or 'rate limit'
\*   plain:        none of them
ErrorKinds == {"plain", "unauthorized", "forbidden", "quota"}

----------------------------------------------------------------------------
(* Sending the response *)

\* res.status(code).json(...) followed by return
Respond(code, what) ==
    /\ status' = code
    /\ body' = what
    /\ responses' = responses + 1
    /\ pc' = "done"

\* the status the outer catch of a video handler answers with, from the
\* includes() tests on e.message
CatchStatus(kind) ==
    IF kind \in {"forbidden", "unauthorized"} THEN 403
    ELSE IF kind = "quota" THEN 429
    ELSE 500

\* catch (e) of a video handler: the Blob revision deletes its blob first,
\* then the error is mapped to 403 / 429 / 500 (500 carries the message)
OuterCatch(kind, message) ==
    /\ blobDeleted' = (blobDeleted \/ blobUrl)
    /\ Respond(CatchStatus(kind),
               IF CatchStatus(kind) = 403 THEN "permissionDenied"
               ELSE IF CatchStatus(kind) = 429 THEN "quotaExceeded"
               ELSE message)

----------------------------------------------------------------------------
(* The video handlers: /api/generate-video and /api/generate-food-video *)

\* The checks a request passes before the handler touches anything else:
\* the status to answer with at once, or 0 to go on.
VideoGateSkippingAuth(m, a, image, prompt) ==
    IF m = "OPTIONS" THEN 200
    ELSE IF m # "POST" THEN 405
    ELSE IF ~image THEN 400
    ELSE IF ~prompt THEN 400
    ELSE 0

VideoGate(m, a, image, prompt) ==
    IF m = "OPTIONS" THEN 200
    ELSE IF m # "POST" THEN 405
    ELSE IF ~a THEN 401
    ELSE IF ~image THEN 400
    ELSE IF ~prompt THEN 400
    ELSE 0

GateBody(m, a, image, prompt) ==
    IF m = "OPTIONS" THEN "empty"
    ELSE IF m # "POST" THEN "methodNotAllowed"
    ELSE IF ~a THEN "loginRequired"
    ELSE IF ~image THEN "imageRequired"
    ELSE "promptRequired"

\* a request arrives at a video handler: method, authentication and body
\* checks, up to the call of findUserById
VideoReceive(ep, m, a, image, prompt) ==
    /\ pc = "idle"
    /\ ep \in VideoEndpoints
    /\ endpoint' = ep
    /\ method' = m
    /\ authed' = a
    /\ IF VideoGate(m, a, image, prompt) # 0
         THEN Respond(VideoGate(m, a, image, prompt), GateBody(m, a, image, prompt))
         ELSE /\ pc' = "lookup"
              /\ UNCHANGED <<status, body, responses>>
    /\ UNCHANGED <<envVars, userVars, videoVars, adminVars, clipVars, hookVars, utilVars>>

\* apiKey: the environment key for an admin, else the user's own key or,
\* failing that, the environment key
SelectHailuoKey(u, env) ==
    IF IsAdmin(u) THEN env ELSE Or(u.hailuoApiKey, env)

\* await findUserById(auth.userId) returns u; the key is chosen; 400 when
\* there is none
VideoFindUser(u) ==
    /\ pc = "lookup"
    /\ endpoint \in VideoEndpoints
    /\ u \in HailuoUsers
    /\ lookups' = lookups + 1
    /\ user' = u
    /\ userKnown' = TRUE
    /\ apiKey' = SelectHailuoKey(u, envHailuo)
    /\ IF Falsy(SelectHailuoKey(u, envHailuo))
         THEN Respond(400, "apiKeyMissing")
         ELSE /\ pc' = "upload"
              /\ UNCHANGED <<status, body, responses>>
    /\ UNCHANGED <<endpoint, method, authed, envVars, uploads, uploadOk, blobUrl,
                   blobDeleted, creates, predictionId, sentKeys, polls, pollCount,
                   elapsed, lastPollSentAt, lastPoll, consecFails,
                   adminVars, clipVars, hookVars, utilVars>>

\* await findUserById(auth.userId) throws: the outer catch answers
VideoFindUserThrows(kind) ==
    /\ pc = "lookup"
    /\ endpoint \in VideoEndpoints
    /\ lookups' = lookups + 1
    /\ OuterCatch(kind, "generationFailed")
    /\ UNCHANGED <<endpoint, method, authed, envVars, user, userKnown, apiKey, uploads, uploadOk,
                   blobUrl, creates, predictionId, sentKeys, polls, pollCount,
                   elapsed, lastPollSentAt, lastPoll, consecFails,
                   adminVars, clipVars, hookVars, utilVars>>

\* Step 1: the image is uploaded (tmpfiles.org, or Vercel Blob); a failure is
\* answered with 500 IMAGE_UPLOAD_FAILED from the inner catch
UploadImageIgnoringFailure(ok) ==
    /\ pc = "upload"
    /\ uploads' = uploads + 1
    /\ uploadOk' = ok
    /\ blobUrl' = (ok /\ endpoint = "generate-food-video-blob")
    /\ pc' = "create"
    /\ UNCHANGED <<endpoint, method, authed, status, body, responses,
                   envVars, userVars, apiKey, blobDeleted, creates, predictionId,
                   sentKeys, polls, pollCount, elapsed, lastPollSentAt, lastPoll,
                   consecFails, adminVars, clipVars, hookVars, utilVars>>

UploadImage(ok) ==
    /\ pc = "upload"
    /\ uploads' = uploads + 1
    /\ uploadOk' = ok
    /\ blobUrl' = (ok /\ endpoint = "generate-food-video-blob")
    /\ IF ok
         THEN /\ pc' = "create"
              /\ UNCHANGED <<status, body, responses>>
         ELSE Respond(500, "uploadFailed")
    /\ UNCHANGED <<endpoint, method, authed, envVars, userVars, apiKey,
                   blobDeleted, creates, predictionId, sentKeys, polls, pollCount,
                   elapsed, lastPollSentAt, lastPoll, consecFails,
                   adminVars, clipVars, hookVars, utilVars>>

\* Step 2: POST to Hailuo with X-API-Key: apiKey. With status 'success' and
\* a predictionID polling starts (startTime = Date.now(), pollCount = 0).
\* Otherwise the inner catch answers 403 when the message holds '401' or
\* 'Unauthorized', and rethrows to the outer catch when not.
CreatePrediction(outcome) ==
    /\ pc = "create"
    /\ outcome \in {"ok"} \cup ErrorKinds
    /\ creates' = creates + 1
    /\ sentKeys' = sentKeys \cup {apiKey}
    /\ IF outcome = "ok"
         THEN /\ predictionId' = TRUE
              /\ pc' = "loop"
              /\ UNCHANGED <<status, body, responses, blobDeleted>>
         ELSE /\ predictionId' = FALSE
              /\ IF outcome = "unauthorized"
                   THEN /\ Respond(403, "permissionDenied")
                        /\ UNCHANGED blobDeleted
                   ELSE OuterCatch(outcome, "apiCallFailed")
    /\ UNCHANGED <<endpoint, method, authed, envVars, userVars, apiKey, uploads,
                   uploadOk, blobUrl, polls, pollCount, elapsed, lastPollSentAt,
                   lastPoll, consecFails, adminVars, clipVars, hookVars, utilVars>>

\* the time test passing one interval late
TimedOutLate(sinceStart) == sinceStart > maxPollingTime + pollInterval

\* `Date.now() - startTime > maxPollingTime`
TimedOut(sinceStart) == sinceStart > maxPollingTime

\* Top of while (true): pollCount++, the time check, then the wait of
\* pollInterval before the poll is sent. `latency` is the time the previous
\* iteration's fetch took (none before the first iteration); the timer is
\* taken to fire on time, a late one only sends the poll later. (The timeout
\* message carries the elapsed seconds, 300 to 315 here: no '403' or '429'
\* in it.)
PollTick(latency) ==
    /\ pc = "loop"
    /\ latency \in Latencies
    /\ (pollCount = 0) => latency = 0
    /\ pollCount' = pollCount + 1
    /\ IF TimedOut(elapsed + latency)
         THEN /\ OuterCatch("plain", "timeout")
              /\ elapsed' = elapsed + latency
         ELSE /\ elapsed' = elapsed + latency + pollInterval
              /\ pc' = "poll"
              /\ UNCHANGED <<status, body, responses, blobDeleted>>
    /\ UNCHANGED <<endpoint, method, authed, envVars, userVars, apiKey, uploads,
                   uploadOk, blobUrl, creates, predictionId, sentKeys, polls,
                   lastPollSentAt, lastPoll, consecFails, adminVars, clipVars, hookVars,
                   utilVars>>

\* success: status 'success' with an output; successNoOutput: status 'success'
\* with an empty output; pending: any other status but 'error'
PollOutcomes == {"success", "successNoOutput", "pending", "error", "notJSON", "networkError"}

\* a poll that threw before a status could be read
FailedPoll(outcome) == outcome \in {"notJSON", "networkError"}

\* whether the catch of a failed poll gives up
GivesUp(count) == count > maxPollFailures

\* The status poll, sent with X-API-Key: apiKey, and what the handler does
\* with the answer:
\*   success with an output     200 with videoUrl (the Blob revision deletes
\*                              its blob first)
\*   status 'error'             throws; rethrown to the outer catch
\*   anything else readable     next iteration
\*   fetch throws               next iteration unless pollCount > 3
\*   body is not JSON           generate-video: as when fetch throws;
\*                              generate-food-video: continue
PollStatus(outcome, kind) ==
    /\ pc = "poll"
    /\ outcome \in PollOutcomes
    /\ kind \in ErrorKinds
    /\ (outcome # "error") => kind = "plain"
    /\ polls' = polls + 1
    /\ sentKeys' = sentKeys \cup {apiKey}
    /\ lastPollSentAt' = elapsed
    /\ lastPoll' = IF outcome = "success" THEN "success" ELSE "other"
    /\ consecFails' = IF FailedPoll(outcome)
                        THEN (IF consecFails < FailCap THEN consecFails + 1 ELSE FailCap)
                        ELSE 0
    /\ CASE outcome = "success" ->
              /\ blobDeleted' = (blobDeleted \/ blobUrl)
              /\ Respond(200, "videoUrl")
         [] outcome = "error" ->
              OuterCatch(kind, "generationFailed")
         [] outcome \in {"pending", "successNoOutput"} ->
              /\ pc' = "loop"
              /\ UNCHANGED <<status, body, responses, blobDeleted>>
         [] outcome = "notJSON" /\ endpoint # "generate-video" ->
              /\ pc' = "loop"
              /\ UNCHANGED <<status, body, responses, blobDeleted>>
         [] OTHER ->
              IF GivesUp(pollCount)
                THEN OuterCatch("plain", "repeatedFailure")
                ELSE /\ pc' = "loop"
                     /\ UNCHANGED <<status, body, responses, blobDeleted>>
    /\ UNCHANGED <<endpoint, method, authed, envVars, userVars, apiKey, uploads,
                   uploadOk, blobUrl, creates, predictionId, pollCount, elapsed,
                   adminVars, clipVars, hookVars, utilVars>>

----------------------------------------------------------------------------
(* GET /api/admin/users *)

\* the requester may see the user list
AdminAllowsAnyKnownUser(u) == u.found

AdminAllows(u) == IsAdmin(u)

\* a request arrives: OPTIONS, method and authentication checks
AdminReceive(m, a) ==
    /\ pc = "idle"
    /\ endpoint' = "admin/users"
    /\ method' = m
    /\ authed' = a
    /\ IF m = "OPTIONS" THEN Respond(200, "empty")
       ELSE IF m # "GET" THEN Respond(405, "methodNotAllowed")
       ELSE IF ~a THEN Respond(401, "loginRequired")
       ELSE /\ pc' = "lookup"
            /\ UNCHANGED <<status, body, responses>>
    /\ UNCHANGED <<envVars, userVars, videoVars, adminVars, clipVars, hookVars, utilVars>>

\* await findUserById(auth.userId) returns u: 403 unless u is an admin
AdminFindUser(u) ==
    /\ pc = "lookup"
    /\ endpoint = "admin/users"
    /\ u \in HailuoUsers
    /\ lookups' = lookups + 1
    /\ user' = u
    /\ userKnown' = TRUE
    /\ IF AdminAllows(u)
         THEN /\ pc' = "list"
              /\ UNCHANGED <<status, body, responses>>
         ELSE Respond(403, "adminRequired")
    /\ UNCHANGED <<endpoint, method, authed, envVars, videoVars, adminVars, clipVars,
                   hookVars, utilVars>>

\* await findUserById(auth.userId) throws: 500 from the catch
AdminFindUserThrows ==
    /\ pc = "lookup"
    /\ endpoint = "admin/users"
    /\ lookups' = lookups + 1
    /\ Respond(500, "listFailed")
    /\ UNCHANGED <<endpoint, method, authed, envVars, user, userKnown, videoVars, adminVars,
                   clipVars, hookVars, utilVars>>

\* await getAllUsers(): 200 with the users, or 500 from the catch when it throws
AdminGetAllUsers(ok) ==
    /\ pc = "list"
    /\ getAllUsersCalls' = getAllUsersCalls + 1
    /\ IF ok THEN Respond(200, "users") ELSE Respond(500, "listFailed")
    /\ UNCHANGED <<endpoint, method, authed, envVars, userVars, videoVars,
                   clipVars, hookVars, utilVars>>

----------------------------------------------------------------------------
(* getOpenAIKeyForUser *)

Throws        == [threw |-> TRUE, value |-> Undefined]
Returns(key)  == [threw |-> FALSE, value |-> key]

\* the key, or the throw when it is falsy
KeyOrThrow(key) == IF Falsy(key) THEN Throws ELSE Returns(key)

GetOpenAIKeyForUserStoredFirst(u, env) ==
    IF ~u.found THEN Throws
    ELSE KeyOrThrow(Or(u.openaiApiKey, env))

\* getOpenAIKeyForUser once findUserById has returned u, with
\* process.env.OPENAI_API_KEY = env
GetOpenAIKeyForUser(u, env) ==
    IF ~u.found THEN Throws
    ELSE IF u.isAdmin THEN KeyOrThrow(Or(env, u.openaiApiKey))
    ELSE KeyOrThrow(Or(u.openaiApiKey, env))

----------------------------------------------------------------------------
(* POST /api/generate-clip-scenario *)

\* config.duration absent
NoDuration == -1

\* the durations a request can carry: the four ClipDuration values, one
\* that is none of them, and none at all
OtherDuration    == 45
RequestDurations == {30, 60, 90, 120, OtherDuration, NoDuration}

\* const { duration = 60 } = config
DefaultDuration == 60

\* CLIP_STRUCTURE_CONFIGS[duration].sceneCount
SceneCount(d) ==
    CASE d = 30  -> 5
      [] d = 60  -> 10
      [] d = 90  -> 15
      [] d = 120 -> 20

\* (CLIP_STRUCTURE_CONFIGS[duration] || CLIP_STRUCTURE_CONFIGS[60]).sceneCount
StructureSceneCount(d) ==
    IF d \in {30, 60, 90, 120} THEN SceneCount(d) ELSE SceneCount(60)

\* what the text model can answer: up to MaxReplyScenes scenes, the odd ones
\* of duration d1 and the even ones of duration d2, numbered or not
\* (sceneNumber 0 stands for an absent or zero sceneNumber)
MaxReplyScenes == 21
ReplyDurations == {5, 6, 10}

ReplyScenes(n, d1, d2, numbered) ==
    [i \in 1..n |-> [sceneNumber |-> IF numbered THEN i ELSE 0,
                     duration    |-> IF i % 2 = 1 THEN d1 ELSE d2]]

\* the object parsed.scenes.map builds for the scene at array index `index`
TransformSceneKeepingDuration(scene, index) ==
    [sceneNumber |-> IF scene.sceneNumber = 0 THEN index + 1 ELSE scene.sceneNumber,
     duration    |-> scene.duration]

TransformScene(scene, index) ==
    [sceneNumber |-> IF scene.sceneNumber = 0 THEN index + 1 ELSE scene.sceneNumber,
     duration    |-> 6]

NoScenario == [totalDuration |-> 0, scenes |-> <<>>]

\* a request arrives: OPTIONS and method checks, getUserIdFromRequest (no
\* login is required), the topic check, the duration default and the prompt
ClipReceive(m, uid, topic, d) ==
    /\ pc = "idle"
    /\ endpoint' = "generate-clip-scenario"
    /\ method' = m
    /\ authed' = uid
    /\ IF m = "OPTIONS"
         THEN /\ Respond(200, "empty")
              /\ UNCHANGED <<userId, reqDuration, promptScenes>>
       ELSE IF m # "POST"
         THEN /\ Respond(405, "methodNotAllowed")
              /\ UNCHANGED <<userId, reqDuration, promptScenes>>
       ELSE IF ~topic
         THEN /\ Respond(400, "topicRequired")
              /\ userId' = uid
              /\ UNCHANGED <<reqDuration, promptScenes>>
       ELSE /\ userId' = uid
            /\ reqDuration' = (IF d = NoDuration THEN DefaultDuration ELSE d)
            /\ promptScenes' = StructureSceneCount(IF d = NoDuration THEN DefaultDuration ELSE d)
            /\ pc' = "model"
            /\ UNCHANGED <<status, body, responses>>
    /\ UNCHANGED <<envVars, userVars, videoVars, adminVars, textModel, openaiKey,
                   parsedScenes, scenario, hookVars, utilVars>>

\* textModel = userId ? await getUserTextModel(userId) : MODELS.TEXT, and
\* the branch on isOpenAIModel(textModel) && userId
ClipSelectModel(tm) ==
    /\ pc = "model"
    /\ tm \in {"openai", "gemini"}
    /\ ~userId => tm = "gemini"
    /\ textModel' = tm
    /\ pc' = IF tm = "openai" /\ userId THEN "key" ELSE "generate"
    /\ UNCHANGED <<endpoint, method, authed, status, body, responses, envVars, userVars,
                   videoVars, adminVars, userId, reqDuration, openaiKey, promptScenes,
                   parsedScenes, scenario, hookVars, utilVars>>

\* await getOpenAIKeyForUser(userId), findUserById returning u: a throw is
\* answered with 500 by the catch
ClipGetOpenAIKey(u) ==
    /\ pc = "key"
    /\ u \in OpenAIUsers
    /\ lookups' = lookups + 1
    /\ user' = u
    /\ userKnown' = TRUE
    /\ IF GetOpenAIKeyForUser(u, envOpenAI).threw
         THEN /\ Respond(500, "openaiKeyError")
              /\ UNCHANGED openaiKey
         ELSE /\ openaiKey' = GetOpenAIKeyForUser(u, envOpenAI).value
              /\ pc' = "generate"
              /\ UNCHANGED <<status, body, responses>>
    /\ UNCHANGED <<endpoint, method, authed, envVars, videoVars, adminVars, userId,
                   reqDuration, textModel, promptScenes, parsedScenes, scenario,
                   hookVars, utilVars>>

\* the text model's call throws, its answer is not JSON or holds no scenes
\* array (also getUserTextModel, findUserById or getAIClientForUser
\* throwing): 500 from the catch
ClipGenerateThrows ==
    /\ pc \in {"model", "key", "generate"}
    /\ Respond(500, "generationFailed")
    /\ UNCHANGED <<endpoint, method, authed, envVars, userVars, videoVars, adminVars,
                   clipVars, hookVars, utilVars>>

\* the text model answers with scenes; they are transformed and the
\* scenario is sent with 200
ClipGenerate(n, d1, d2, numbered) ==
    /\ pc = "generate"
    /\ n \in 0..MaxReplyScenes
    /\ d1 \in ReplyDurations
    /\ d2 \in ReplyDurations
    /\ parsedScenes' = ReplyScenes(n, d1, d2, numbered)
    /\ scenario' = [totalDuration |-> reqDuration,
                    scenes |-> [i \in 1..n |->
                                  TransformScene(ReplyScenes(n, d1, d2, numbered)[i], i - 1)]]
    /\ Respond(200, "scenario")
    /\ UNCHANGED <<endpoint, method, authed, envVars, userVars, videoVars, adminVars,
                   userId, reqDuration, textModel, openaiKey, promptScenes, hookVars, utilVars>>

----------------------------------------------------------------------------
(* useLongformExport *)

\* the parts of the longform scenario being exported: calculatePartRanges
\* gives NumParts ranges (part p here is partIndex p - 1)
NumParts == 2
Parts    == 1..NumParts

\* AbortControllers created in one run of the model
MaxControllers == 4

\* what splitScenesForExportMulti and longformScenesToRemotionScenes find for
\* the part asked for
PartContents == {"scenes", "noScenes", "noImages"}

\* initializeParts, when the closure's partStates.length differs from the
\* number of ranges: every part idle, no output
InitializedStates == IF seenLen # NumParts THEN [p \in Parts |-> "idle"] ELSE partStates
InitializedOutput == IF seenLen # NumParts THEN {} ELSE outputParts

\* `if (renderingPartsRef.current.has(partIndex)) return`
GuardPasses(p) == p \notin renderingParts

\* React renders the component again: the callbacks now close over the
\* current partStates.length
Rerender ==
    /\ seenLen # Len(partStates)
    /\ seenLen' = Len(partStates)
    /\ UNCHANGED <<reqVars, envVars, userVars, videoVars, adminVars, clipVars, utilVars,
                   partStates, renderingParts, controllers, abortControllers, renders,
                   blobUrls, outputParts>>

\* startExportPart(scenario, partIndex) up to its await: initializeParts,
\* the guard, a new AbortController registered for the part, the part
\* marked as rendering, and either an error state (nothing to render) or
\* the call of renderLongformPart
StartExportPart(p, contents) ==
    /\ p \in Parts
    /\ contents \in PartContents
    /\ Len(controllers) < MaxControllers
    /\ IF ~GuardPasses(p)
         THEN /\ partStates' = InitializedStates
              /\ outputParts' = InitializedOutput
              /\ UNCHANGED <<renderingParts, controllers, abortControllers, renders>>
         ELSE /\ controllers' = Append(controllers, FALSE)
              /\ abortControllers' = [abortControllers EXCEPT ![p] = Len(controllers) + 1]
              /\ outputParts' = InitializedOutput
              /\ IF contents = "scenes"
                   THEN /\ renderingParts' = renderingParts \cup {p}
                        /\ partStates' = [InitializedStates EXCEPT ![p] = "rendering"]
                        /\ renders' = Append(renders, [part |-> p,
                                                       controller |-> Len(controllers) + 1,
                                                       inFlight |-> TRUE])
                   ELSE /\ renderingParts' = renderingParts \ {p}
                        /\ partStates' = [InitializedStates EXCEPT ![p] = "error"]
                        /\ UNCHANGED renders
    /\ UNCHANGED <<reqVars, envVars, userVars, videoVars, adminVars, clipVars, utilVars,
                   seenLen, blobUrls>>

\* renderLongformPart of render r resolves and startExportPart continues
\* after its await: the part leaves renderingPartsRef; nothing more once the
\* controller is aborted; else the part is complete (URL and output kept) or
\* in error. (The progress callback changes no status and is left out.)
RenderComplete(r, success) ==
    /\ r \in 1..Len(renders)
    /\ renders[r].inFlight
    /\ renders' = [renders EXCEPT ![r].inFlight = FALSE]
    /\ renderingParts' = renderingParts \ {renders[r].part}
    /\ IF controllers[renders[r].controller]
         THEN UNCHANGED <<partStates, blobUrls, outputParts>>
         ELSE IF success
           THEN /\ partStates' = [partStates EXCEPT ![renders[r].part] = "complete"]
                /\ blobUrls' = blobUrls \cup {renders[r].part}
                /\ outputParts' = outputParts \cup {renders[r].part}
           ELSE /\ partStates' = [partStates EXCEPT ![renders[r].part] = "error"]
                /\ UNCHANGED <<blobUrls, outputParts>>
    /\ UNCHANGED <<reqVars, envVars, userVars, videoVars, adminVars, clipVars, utilVars,
                   seenLen, controllers, abortControllers>>

\* cancelExport: every registered controller aborted, both refs cleared,
\* the object URLs revoked, rendering parts back to idle
CancelExport ==
    /\ controllers' = [c \in 1..Len(controllers) |->
                         controllers[c] \/ (\E p \in Parts : abortControllers[p] = c)]
    /\ abortControllers' = [p \in Parts |-> 0]
    /\ renderingParts' = {}
    /\ blobUrls' = {}
    /\ partStates' = [i \in 1..Len(partStates) |->
                        IF partStates[i] = "rendering" THEN "idle" ELSE partStates[i]]
    /\ UNCHANGED <<reqVars, envVars, userVars, videoVars, adminVars, clipVars, utilVars,
                   seenLen, renders, outputParts>>

\* the renders of part p that are in flight and not aborted
LiveRenders(p) ==
    {r \in 1..Len(renders) :
        /\ renders[r].part = p
        /\ renders[r].inFlight
        /\ ~controllers[renders[r].controller]}

----------------------------------------------------------------------------
(* POST /api/admin/setup *)

\* the requests in flight at once
NumSetupRequests == 2
SetupRequests == 1..NumSetupRequests

\* `secretKey !== 'CREATE_ADMIN_2024'`
SetupSecret == "CREATE_ADMIN_2024"
SecretKeys == {SetupSecret, "<another key>"}

\* `const email = 'gamzon@kakao.com'`
email == "gamzon@kakao.com"
OtherEmail == "<another email>"

\* a document of the users collection, as far as the handler reads or writes it
UserDocument(e, isAdmin) == [email |-> e, isAdmin |-> isAdmin]

\* findOne answers null when no document matches
NoDocument == [email |-> "<null>", isAdmin |-> FALSE]

\* the collection before the first setup request
InitialUsers ==
    {<<>>,
     <<UserDocument(OtherEmail, FALSE)>>,
     <<UserDocument(email, FALSE)>>,
     <<UserDocument(OtherEmail, FALSE), UserDocument(email, FALSE)>>}

\* the positions of the documents matching the filter { email }
Matching(coll, e) == {i \in DOMAIN coll : coll[i].email = e}

\* collection.findOne({ email }): the first matching document, or null
FindOne(coll, e) ==
    IF Matching(coll, e) = {}
      THEN NoDocument
      ELSE coll[CHOOSE i \in Matching(coll, e) : \A j \in Matching(coll, e) : i <= j]

\* collection.updateOne({ email }, { $set: { isAdmin: true } }): the first
\* matching document is updated, none when nothing matches
UpdateOne(coll, e) ==
    [i \in DOMAIN coll |->
        IF i \in Matching(coll, e) /\ (\A j \in Matching(coll, e) : i <= j)
          THEN [coll[i] EXCEPT !.isAdmin = TRUE]
          ELSE coll[i]]

\* collection.insertOne(doc)
InsertOne(coll, doc) == Append(coll, doc)

\* `return res.status(code).json(...)` of request r
SetupRespond(r, code) ==
    /\ setupStatus' = [setupStatus EXCEPT ![r] = code]
    /\ setupPc' = [setupPc EXCEPT ![r] = "done"]

\* the handler of request r up to `await getDatabase()`
SetupReceive(r, m, secretKey) ==
    /\ setupPc[r] = "idle"
    /\ IF m = "OPTIONS" THEN SetupRespond(r, 200)
       ELSE IF m # "POST" THEN SetupRespond(r, 405)
       ELSE IF secretKey # SetupSecret THEN SetupRespond(r, 403)
       ELSE /\ setupPc' = [setupPc EXCEPT ![r] = "getDatabase"]
            /\ UNCHANGED setupStatus
    /\ UNCHANGED <<users, existingUser>>
    /\ UNCHANGED <<reqVars, envVars, userVars, videoVars, adminVars, clipVars, hookVars,
                   promptVars>>

\* getDatabase() returns to request r
SetupGetDatabase(r, db) ==
    /\ setupPc[r] = "getDatabase"
    /\ IF ~db THEN SetupRespond(r, 500)
       ELSE /\ setupPc' = [setupPc EXCEPT ![r] = "findOne"]
            /\ UNCHANGED setupStatus
    /\ UNCHANGED <<users, existingUser>>
    /\ UNCHANGED <<reqVars, envVars, userVars, videoVars, adminVars, clipVars, hookVars,
                   promptVars>>

\* findOne({ email }) returns to request r
SetupFindOne(r) ==
    /\ setupPc[r] = "findOne"
    /\ existingUser' = [existingUser EXCEPT ![r] = FindOne(users, email)]
    /\ setupPc' = [setupPc EXCEPT ![r] =
                      IF FindOne(users, email) # NoDocument THEN "updateOne"
                                                            ELSE "insertOne"]
    /\ UNCHANGED <<users, setupStatus>>
    /\ UNCHANGED <<reqVars, envVars, userVars, videoVars, adminVars, clipVars, hookVars,
                   promptVars>>

\* the branch `if (existingUser)`: updateOne, then 200
SetupUpdateOne(r) ==
    /\ setupPc[r] = "updateOne"
    /\ users' = UpdateOne(users, email)
    /\ SetupRespond(r, 200)
    /\ UNCHANGED existingUser
    /\ UNCHANGED <<reqVars, envVars, userVars, videoVars, adminVars, clipVars, hookVars,
                   promptVars>>

\* no existingUser: insertOne of the new admin document, then 201
SetupInsertOne(r) ==
    /\ setupPc[r] = "insertOne"
    /\ users' = InsertOne(users, UserDocument(email, TRUE))
    /\ SetupRespond(r, 201)
    /\ UNCHANGED existingUser
    /\ UNCHANGED <<reqVars, envVars, userVars, videoVars, adminVars, clipVars, hookVars,
                   promptVars>>

\* an awaited call of request r throws: the catch answers 500
SetupThrows(r) ==
    /\ setupPc[r] \in {"getDatabase", "findOne", "updateOne", "insertOne"}
    /\ SetupRespond(r, 500)
    /\ UNCHANGED <<users, existingUser>>
    /\ UNCHANGED <<reqVars, envVars, userVars, videoVars, adminVars, clipVars, hookVars,
                   promptVars>>

----------------------------------------------------------------------------
(* buildImagePrompt *)

\* a string is the sequence of its pieces; '' is the empty sequence
EmptyString == <<>>

\* the longest materials and quality selections
MaxKeys == 2

\* the presets of imagePromptPresets.ts, two keys of a table at most
SHOT_TYPES ==
    [k \in {"extreme-close-up", "medium"} |-> [prompt |-> <<"shot", k>>]]
CAMERA_ANGLES == [k \in {"eye-level"} |-> [prompt |-> <<"eye-level angle">>]]
FRAMINGS ==
    [k \in {"rule-of-thirds-left"} |-> [prompt |-> <<"subject on left third">>]]
LENSES == [k \in {"85mm-portrait"} |-> [prompt |-> <<"85mm portrait lens">>]]
LIGHTINGS == [k \in {"natural-soft"} |-> [prompt |-> <<"soft natural light">>]]
ENVIRONMENTS ==
    [k \in {"studio-white", "studio-dark"} |-> [prompt |-> <<"studio background", k>>]]
MATERIALS ==
    [k \in {"skin-natural", "skin-dewy"} |-> [prompt |-> <<"skin texture", k>>]]
STYLES == [k \in {"photoreal-cinematic"} |-> [prompt |-> <<"ultra photoreal">>]]
QUALITY_KEYWORDS ==
    [k \in {"high-detail", "8k"} |-> [prompt |-> <<"quality", k>>]]

\* the sequences over S of length n at most
SeqsUpTo(S, n) == UNION {[1..k -> S] : k \in 0..n}

\* the strings callers pass: nothing or some text
Texts(text) == {EmptyString, <<text>>}

\* ImagePromptConfig, without the fields only negativePrompt reads; an
\* optional string left out is '' here, both are falsy
Configs ==
    [subject : Texts("subject"),
     customEnvironment : Texts("custom environment"),
     environment : DOMAIN ENVIRONMENTS,
     shotType : DOMAIN SHOT_TYPES,
     cameraAngle : DOMAIN CAMERA_ANGLES,
     framing : DOMAIN FRAMINGS,
     lens : DOMAIN LENSES,
     lighting : DOMAIN LIGHTINGS,
     materials : SeqsUpTo(DOMAIN MATERIALS, MaxKeys),
     style : DOMAIN STYLES,
     quality : SeqsUpTo(DOMAIN QUALITY_KEYWORDS, MaxKeys),
     additionalDetails : Texts("additional details")]

\* createDefaultImageConfig()
DefaultConfig ==
    [subject |-> EmptyString,
     customEnvironment |-> EmptyString,
     environment |-> "studio-white",
     shotType |-> "medium",
     cameraAngle |-> "eye-level",
     framing |-> "rule-of-thirds-left",
     lens |-> "85mm-portrait",
     lighting |-> "natural-soft",
     materials |-> <<>>,
     style |-> "photoreal-cinematic",
     quality |-> <<"high-detail", "8k">>,
     additionalDetails |-> EmptyString]

\* the breakdown before buildImagePrompt has run
NoBreakdown ==
    [subject |-> EmptyString, setting |-> EmptyString, composition |-> EmptyString,
     camera |-> EmptyString, lighting |-> EmptyString, material |-> EmptyString,
     style |-> EmptyString, quality |-> EmptyString]

\* array.filter(Boolean) leaving every part in place
KeepEveryPart(parts) == parts

\* array.filter(Boolean) on an array of strings: '' is dropped
FilterBoolean(parts) == SelectSeq(parts, LAMBDA part : part # EmptyString)

\* array.join(separator)
RECURSIVE Join(_, _)
Join(parts, separator) ==
    IF parts = <<>> THEN EmptyString
    ELSE IF Len(parts) = 1 THEN parts[1]
    ELSE parts[1] \o <<separator>> \o Join(Tail(parts), separator)

\* keys.map(key => table[key].prompt)
MapPrompts(table, keys) == [i \in 1..Len(keys) |-> table[keys[i]].prompt]

\* buildImagePrompt(config): fullPrompt and breakdown
BuildImagePrompt(c) ==
    LET subject == c.subject
        envPreset == IF c.customEnvironment # EmptyString
                       THEN c.customEnvironment
                       ELSE ENVIRONMENTS[c.environment].prompt
        compositionString ==
            SHOT_TYPES[c.shotType].prompt \o <<", ">> \o
            CAMERA_ANGLES[c.cameraAngle].prompt \o <<", ">> \o
            FRAMINGS[c.framing].prompt
        cameraString == LENSES[c.lens].prompt
        lightingString == LIGHTINGS[c.lighting].prompt
        materialPrompts == FilterBoolean(MapPrompts(MATERIALS, c.materials))
        materialString == IF Len(materialPrompts) > 0
                            THEN Join(materialPrompts, ", ")
                            ELSE EmptyString
        styleString == STYLES[c.style].prompt
        qualityPrompts == FilterBoolean(MapPrompts(QUALITY_KEYWORDS, c.quality))
        qualityString == Join(qualityPrompts, ", ")
        promptParts ==
            FilterBoolean(<<subject, envPreset, compositionString, cameraString,
                            lightingString, materialString, styleString, qualityString,
                            c.additionalDetails>>)
    IN  [fullPrompt |-> Join(promptParts, ". ") \o <<".">>,
         breakdown |-> [subject |-> subject, setting |-> envPreset,
                        composition |-> compositionString, camera |-> cameraString,
                        lighting |-> lightingString, material |-> materialString,
                        style |-> styleString, quality |-> qualityString]]

\* a caller runs buildImagePrompt on its config
Generate ==
    /\ ~generated
    /\ generated' = TRUE
    /\ fullPrompt' = BuildImagePrompt(config).fullPrompt
    /\ breakdown' = BuildImagePrompt(config).breakdown
    /\ UNCHANGED config
    /\ UNCHANGED <<reqVars, envVars, userVars, videoVars, adminVars, clipVars, hookVars,
                   setupVars>>

----------------------------------------------------------------------------
(* Initial state *)

\* no request yet, nothing rendered
Quiet ==
    /\ pc = "idle"
    /\ endpoint = "none"
    /\ method = "none"
    /\ authed = FALSE
    /\ status = 0
    /\ body = "none"
    /\ responses = 0
    /\ user = NoUser
    /\ userKnown = FALSE
    /\ lookups = 0
    /\ apiKey = Undefined
    /\ uploads = 0
    /\ uploadOk = FALSE
    /\ blobUrl = FALSE
    /\ blobDeleted = FALSE
    /\ creates = 0
    /\ predictionId = FALSE
    /\ sentKeys = {}
    /\ polls = 0
    /\ pollCount = 0
    /\ elapsed = 0
    /\ lastPollSentAt = -1
    /\ lastPoll = "none"
    /\ consecFails = 0
    /\ getAllUsersCalls = 0
    /\ userId = FALSE
    /\ reqDuration = NoDuration
    /\ textModel = "none"
    /\ openaiKey = Undefined
    /\ promptScenes = 0
    /\ parsedScenes = <<>>
    /\ scenario = NoScenario
    /\ partStates = <<>>
    /\ seenLen = 0
    /\ renderingParts = {}
    /\ controllers = <<>>
    /\ abortControllers = [p \in Parts |-> 0]
    /\ renders = <<>>
    /\ blobUrls = {}
    /\ outputParts = {}

\* no setup request yet, on any users collection
QuietSetup ==
    /\ users \in InitialUsers
    /\ setupPc = [r \in SetupRequests |-> "idle"]
    /\ setupStatus = [r \in SetupRequests |-> 0]
    /\ existingUser = [r \in SetupRequests |-> NoDocument]

\* buildImagePrompt not called yet
QuietPrompt ==
    /\ generated = FALSE
    /\ breakdown = NoBreakdown
    /\ fullPrompt = EmptyString

\* the video and admin handlers, deployed with any HAILUO_API_KEY
Init ==
    /\ Quiet
    /\ users = <<>>
    /\ QuietSetup
    /\ config = DefaultConfig
    /\ QuietPrompt
    /\ envHailuo \in EnvKeyValues
    /\ envOpenAI = Undefined

Next ==
    \/ \E ep \in VideoEndpoints, m \in Methods, a, image, prompt \in BOOLEAN :
          VideoReceive(ep, m, a, image, prompt)
    \/ \E u \in HailuoUsers : VideoFindUser(u)
    \/ \E kind \in ErrorKinds : VideoFindUserThrows(kind)
    \/ \E ok \in BOOLEAN : UploadImage(ok)
    \/ \E outcome \in {"ok"} \cup ErrorKinds : CreatePrediction(outcome)
    \/ \E latency \in Latencies : PollTick(latency)
    \/ \E outcome \in PollOutcomes, kind \in ErrorKinds : PollStatus(outcome, kind)
    \/ \E m \in Methods, a \in BOOLEAN : AdminReceive(m, a)
    \/ \E u \in HailuoUsers : AdminFindUser(u)
    \/ AdminFindUserThrows
    \/ \E ok \in BOOLEAN : AdminGetAllUsers(ok)

Spec == Init /\ [][Next]_vars

\* the same handlers when every awaited call returns or throws, so that a
\* handler that can take a step takes one
SpecFair == Spec /\ WF_vars(Next)

\* the clip scenario handler, deployed with any OPENAI_API_KEY
InitClip ==
    /\ Quiet
    /\ users = <<>>
    /\ QuietSetup
    /\ config = DefaultConfig
    /\ QuietPrompt
    /\ envHailuo = Undefined
    /\ envOpenAI \in EnvKeyValues

NextClip ==
    \/ \E m \in Methods, uid, topic \in BOOLEAN, d \in RequestDurations :
          ClipReceive(m, uid, topic, d)
    \/ \E tm \in {"openai", "gemini"} : ClipSelectModel(tm)
    \/ \E u \in OpenAIUsers : ClipGetOpenAIKey(u)
    \/ ClipGenerateThrows
    \/ \E n \in 0..MaxReplyScenes, d1, d2 \in ReplyDurations, numbered \in BOOLEAN :
          ClipGenerate(n, d1, d2, numbered)

SpecClip == InitClip /\ [][NextClip]_vars

\* the export hook after mounting
InitExport ==
    /\ Quiet
    /\ users = <<>>
    /\ QuietSetup
    /\ config = DefaultConfig
    /\ QuietPrompt
    /\ envHailuo = Undefined
    /\ envOpenAI = Undefined

NextExport ==
    \/ \E p \in Parts, contents \in PartContents : StartExportPart(p, contents)
    \/ \E r \in 1..MaxControllers, success \in BOOLEAN : RenderComplete(r, success)
    \/ CancelExport
    \/ Rerender

SpecExport == InitExport /\ [][NextExport]_vars

\* setup requests served at once, on any users collection
InitSetup ==
    /\ Quiet
    /\ envHailuo = Undefined
    /\ envOpenAI = Undefined
    /\ QuietSetup
    /\ config = DefaultConfig
    /\ QuietPrompt

NextSetup ==
    \/ \E r \in SetupRequests, m \in Methods, secretKey \in SecretKeys :
          SetupReceive(r, m, secretKey)
    \/ \E r \in SetupRequests, db \in BOOLEAN : SetupGetDatabase(r, db)
    \/ \E r \in SetupRequests : SetupFindOne(r)
    \/ \E r \in SetupRequests : SetupUpdateOne(r)
    \/ \E r \in SetupRequests : SetupInsertOne(r)
    \/ \E r \in SetupRequests : SetupThrows(r)

SpecSetup == InitSetup /\ [][NextSetup]_vars

\* buildImagePrompt called on any config
InitPrompt ==
    /\ Quiet
    /\ envHailuo = Undefined
    /\ envOpenAI = Undefined
    /\ users = <<>>
    /\ QuietSetup
    /\ config \in Configs
    /\ QuietPrompt

NextPrompt == Generate

SpecPrompt == InitPrompt /\ [][NextPrompt]_vars

----------------------------------------------------------------------------
(* Properties *)

\* C1: in the video handlers the steps run in the order upload, create
\* prediction, poll: a create-prediction request has been sent only if the
\* image upload succeeded, a status poll only if a prediction ID was
\* obtained, and a 200 response with videoUrl only after the latest poll
\* returned status 'success' with an output.
C1_UploadCreatePollInOrder ==
    endpoint \in VideoEndpoints =>
        /\ creates > 0 => (uploads > 0 /\ uploadOk)
        /\ polls > 0 => (creates > 0 /\ predictionId)
        /\ (status = 200 /\ body = "videoUrl") => (polls > 0 /\ lastPoll = "success")

\* C1 witness: a video is delivered after several polls
C1_VideoDeliveredAfterPolling ==
    /\ endpoint \in VideoEndpoints
    /\ status = 200
    /\ body = "videoUrl"
    /\ polls >= 3

\* C2: no status poll is sent later than maxPollingTime (300000 ms) after
\* polling started.
C2_NoPollAfterMaxPollingTime ==
    endpoint \in VideoEndpoints => lastPollSentAt <= maxPollingTime

\* C3: /api/generate-video gives up with the 'repeated failure' error only
\* when 3 polls in a row have failed; one failed poll after polls that were
\* answered never ends the request.
C3_GivesUpOnlyAfterThreeFailuresInARow ==
    (endpoint = "generate-video" /\ body = "repeatedFailure") => consecFails >= 3

\* C4: a request to a video handler that is not an authenticated POST is
\* answered (200 for OPTIONS, 405 for another method, 401 for a POST without
\* authentication) and causes no user lookup, upload or Hailuo request.
C4_NoExternalCallUnlessAuthenticatedPost ==
    (endpoint \in VideoEndpoints /\ ~(method = "POST" /\ authed)) =>
        /\ status = (IF method = "OPTIONS" THEN 200
                     ELSE IF method # "POST" THEN 405 ELSE 401)
        /\ lookups = 0
        /\ uploads = 0
        /\ creates = 0
        /\ polls = 0
        /\ sentKeys = {}

\* C4 witness: an unauthenticated POST has been answered with 401
C4_UnauthenticatedPostRefused ==
    /\ endpoint \in VideoEndpoints
    /\ method = "POST"
    /\ ~authed
    /\ status = 401
    /\ pc = "done"

\* C5: GET /api/admin/users sends the user list only with 200 to an
\* authenticated requester whose looked-up record has isAdmin true; an
\* unauthenticated GET gets 401, an authenticated requester whose record is
\* not an admin's or is unknown gets 403, and getAllUsers is called in
\* neither case.
C5_UserListForAdminsOnly ==
    endpoint = "admin/users" =>
        /\ body = "users" =>
              (status = 200 /\ method = "GET" /\ authed /\ userKnown /\ IsAdmin(user))
        /\ (method = "GET" /\ ~authed) => status = 401
        /\ (method = "GET" /\ authed /\ userKnown /\ ~IsAdmin(user)) => status = 403
        /\ getAllUsersCalls > 0 => (authed /\ userKnown /\ IsAdmin(user))

\* C5 witness: an authenticated, known user who is no admin has been refused
C5_KnownNonAdminRefused ==
    /\ endpoint = "admin/users"
    /\ authed
    /\ userKnown
    /\ user.found
    /\ ~user.isAdmin
    /\ status = 403
    /\ getAllUsersCalls = 0

\* C6: the Hailuo requests of an admin carry the environment key
\* HAILUO_API_KEY, those of an ordinary user carry that user's own stored
\* hailuoApiKey.
C6_HailuoKeyByRole ==
    (endpoint \in VideoEndpoints /\ creates > 0 /\ user.found) =>
        sentKeys = {IF user.isAdmin THEN envHailuo ELSE user.hailuoApiKey}

\* getOpenAIKeyForUser has thrown / has returned
KeyThrown  == userKnown /\ body = "openaiKeyError"
KeyReturned == userKnown /\ body # "openaiKeyError"

\* C7: getOpenAIKeyForUser returns, for an admin, OPENAI_API_KEY when set
\* and otherwise the stored key; for another user the stored key when set and
\* otherwise OPENAI_API_KEY; it throws when the user does not exist or
\* neither key is set, and never returns an empty key.
C7_OpenAIKeyPreference ==
    (endpoint = "generate-clip-scenario" /\ userKnown) =>
        /\ ~user.found => KeyThrown
        /\ (user.found /\ user.isAdmin) =>
              IF ~Falsy(envOpenAI) THEN KeyReturned /\ openaiKey = envOpenAI
              ELSE IF ~Falsy(user.openaiApiKey)
                     THEN KeyReturned /\ openaiKey = user.openaiApiKey
              ELSE KeyThrown
        /\ (user.found /\ ~user.isAdmin) =>
              IF ~Falsy(user.openaiApiKey)
                THEN KeyReturned /\ openaiKey = user.openaiApiKey
              ELSE IF ~Falsy(envOpenAI) THEN KeyReturned /\ openaiKey = envOpenAI
              ELSE KeyThrown
        /\ KeyReturned => openaiKey \notin {Undefined, ""}

\* C7 witness: an admin with a stored key was given the environment key
C7_AdminGivenEnvironmentKey ==
    /\ endpoint = "generate-clip-scenario"
    /\ userKnown
    /\ user.found
    /\ user.isAdmin
    /\ user.openaiApiKey = "sk-user"
    /\ envOpenAI = "sk-env"
    /\ openaiKey = "sk-env"
    /\ pc = "generate"

\* C8: every scene of a scenario sent with 200 by /api/generate-clip-scenario
\* has duration 6, whatever duration the text model gave it.
C8_EverySceneSixSeconds ==
    (endpoint = "generate-clip-scenario" /\ body = "scenario") =>
        /\ Len(scenario.scenes) = Len(parsedScenes)
        /\ \A i \in 1..Len(scenario.scenes) : scenario.scenes[i].duration = 6

\* C8 witness: a scenario was sent whose scenes the text model had given
\* other durations
C8_OtherDurationsOverwritten ==
    /\ endpoint = "generate-clip-scenario"
    /\ status = 200
    /\ body = "scenario"
    /\ Len(parsedScenes) >= 2
    /\ \A i \in 1..Len(parsedScenes) : parsedScenes[i].duration # 6

\* C9: a scenario sent for duration 30, 60, 90 or 120 holds exactly 5, 10, 15
\* or 20 scenes, so its totalDuration is 6 times its number of scenes.
C9_SceneCountMatchesDuration ==
    (endpoint = "generate-clip-scenario" /\ body = "scenario"
        /\ reqDuration \in {30, 60, 90, 120}) =>
        /\ Len(scenario.scenes) = SceneCount(reqDuration)
        /\ scenario.totalDuration = 6 * Len(scenario.scenes)

\* C10: at most one render of a part that is not aborted is in flight at any
\* time.
C10_OneLiveRenderPerPart ==
    \A p \in Parts : Cardinality(LiveRenders(p)) <= 1

\* C11: POST /api/admin/setup creates the admin account at most once: after
\* any number of requests with the valid secret, also requests running at
\* the same time, the users collection holds at most one document with the
\* admin email.
C11_AtMostOneAdminEmailDocument ==
    Cardinality(Matching(users, email)) <= 1

\* string.split(separator)
RECURSIVE Split(_, _)
Split(string, separator) ==
    IF string = EmptyString THEN <<EmptyString>>
    ELSE LET rest == Split(Tail(string), separator)
         IN  IF Head(string) = separator
               THEN <<EmptyString>> \o rest
               ELSE <<(<<Head(string)>> \o rest[1])>> \o Tail(rest)

\* the nine blocks in the order the claim gives them
BlocksInOrder ==
    <<breakdown.subject, breakdown.setting, breakdown.composition, breakdown.camera,
      breakdown.lighting, breakdown.material, breakdown.style, breakdown.quality,
      config.additionalDetails>>

\* the segments of fullPrompt between its '. ' separators, final '.' removed
Segments == Split(SubSeq(fullPrompt, 1, Len(fullPrompt) - 1), ". ")

\* C12: fullPrompt holds the blocks in the order subject, setting,
\* composition, camera/lens, lighting, material, style, quality, additional
\* details: every non-empty block is there exactly once in that order, and
\* an empty block leaves nothing, no empty segment between separators.
C12_NonEmptyBlocksOnceInOrder ==
    generated =>
        LET present == {i \in DOMAIN BlocksInOrder : BlocksInOrder[i] # EmptyString}
        IN  /\ fullPrompt[Len(fullPrompt)] = "."
            /\ Len(Segments) = Cardinality(present)
            /\ \A k \in DOMAIN Segments : Segments[k] # EmptyString
            /\ \A i \in present :
                  Segments[Cardinality({j \in present : j <= i})] = BlocksInOrder[i]

\* C12 witness: a prompt built with the subject and additional details given
\* and the material and quality blocks empty
C12_BuiltWithEmptyBlocks ==
    /\ generated
    /\ breakdown.subject # EmptyString
    /\ config.additionalDetails # EmptyString
    /\ breakdown.material = EmptyString
    /\ breakdown.quality = EmptyString

\* the status polls one request can send: one every pollInterval from
\* pollInterval to maxPollingTime + pollInterval after polling started
PollBound == maxPollingTime \div pollInterval + 1

\* the most steps one invocation takes: lookup, upload, create, then a wait
\* and a poll for each of PollBound + 1 iterations, and the response
MaxSteps == 5 + 2 * (PollBound + 1)

\* how far a video handler has come; every step of it moves this up
StepsTaken ==
    CASE pc = "idle" -> 0
      [] pc = "lookup" -> 1
      [] pc = "upload" -> 2
      [] pc = "create" -> 3
      [] pc = "poll" -> 3 + 2 * pollCount
      [] pc = "loop" -> 4 + 2 * pollCount
      [] OTHER -> MaxSteps

\* C13: every invocation of a video handler ends with exactly one HTTP
\* response when each external call returns or throws, and sends a bounded
\* number of status polls (61 at the 5 s interval), also when every poll
\* answer is non-JSON or pending: at most PollBound polls and one response
\* are sent, the handler is done exactly when it has responded, until then
\* it has a step to take, and each step brings it nearer to the response.
C13_VideoHandlerTerminatesWithOneResponse ==
    /\ [](endpoint \in VideoEndpoints =>
            /\ polls <= PollBound
            /\ responses <= 1
            /\ (pc = "done") <=> (responses = 1)
            /\ StepsTaken <= MaxSteps
            /\ (pc # "done") => ENABLED Next)
    /\ [][endpoint' \in VideoEndpoints => StepsTaken' > StepsTaken]_vars

\* what C13 amounts to under SpecFair: a video handler that was invoked
\* responds
VideoHandlerResponds ==
    (endpoint \in VideoEndpoints) ~> (pc = "done" /\ responses = 1)

\* C13 witness: generate-food-video timed out after PollBound polls, the
\* latest ones all unreadable
C13_TimedOutAfterPollBoundPolls ==
    /\ endpoint = "generate-food-video"
    /\ pc = "done"
    /\ responses = 1
    /\ body = "timeout"
    /\ polls = PollBound
    /\ consecFails = FailCap

====
